---------------------------- MODULE Spec2Model ----------------------------
(***************************************************************************)
(* A model of the aws-arn crate: the ARN record, its parser (FromStr), its *)
(* serializer (Display) and the syntactic validation of its fields.        *)
(*                                                                         *)
(* A string is a sequence of characters; a character is a one-token string *)
(* whose Unicode code point is given by Code.                              *)
(***************************************************************************)
EXTENDS Integers, Sequences, FiniteSets, TLC

VARIABLES pc, s, arn, err, shown, arn2, err2, builder, calls, op

vars == <<pc, s, arn, err, shown, arn2, err2, builder, calls, op>>

(***************************************************************************)
(* Characters                                                              *)
(***************************************************************************)

\* The Unicode code point of a character of the model's alphabet.
Code(c) ==
    CASE c = "\t" -> 9
      [] c = "\n" -> 10
      [] c = "\r" -> 13
      [] c = " " -> 32
      [] c = "$" -> 36
      [] c = "*" -> 42
      [] c = "-" -> 45
      [] c = "." -> 46
      [] c = "/" -> 47
      [] c = "0" -> 48
      [] c = "1" -> 49
      [] c = "2" -> 50
      [] c = "3" -> 51
      [] c = "4" -> 52
      [] c = "5" -> 53
      [] c = "6" -> 54
      [] c = "7" -> 55
      [] c = "8" -> 56
      [] c = "9" -> 57
      [] c = ":" -> 58
      [] c = "?" -> 63
      [] c = "A" -> 65
      [] c = "N" -> 78
      [] c = "R" -> 82
      [] c = "_" -> 95
      [] c = "a" -> 97
      [] c = "b" -> 98
      [] c = "c" -> 99
      [] c = "d" -> 100
      [] c = "e" -> 101
      [] c = "i" -> 105
      [] c = "l" -> 108
      [] c = "m" -> 109
      [] c = "n" -> 110
      [] c = "o" -> 111
      [] c = "p" -> 112
      [] c = "r" -> 114
      [] c = "s" -> 115
      [] c = "t" -> 116
      [] c = "w" -> 119
      [] c = "x" -> 120
      [] c = "y" -> 121
      [] c = "{" -> 123
      [] c = "}" -> 125
      [] c = "U+E9" -> 233

\* [a-zA-Z] of the regex crate.
IsAlpha(c) == Code(c) \in (65..90) \cup (97..122)

\* char::is_ascii_digit
is_ascii_digit(c) == Code(c) \in 48..57

\* The number of bytes of a character in UTF-8 (str::len counts bytes).
len_utf8(c) == IF Code(c) < 128 THEN 1 ELSE 2

(***************************************************************************)
(* Strings                                                                 *)
(***************************************************************************)

RECURSIVE str_len(_)
\* str::len: the length of a string in bytes.
str_len(str) ==
    IF str = <<>> THEN 0 ELSE len_utf8(Head(str)) + str_len(Tail(str))

\* str::contains(&[char]): some character of the string is in chars.
str_contains(str, chars) == \E i \in 1..Len(str) : str[i] \in chars

RECURSIVE split(_, _)
\* str::split(char): the slices between the separators, no limit on their
\* number; the empty string gives one empty slice.
split(str, sep) ==
    IF \A i \in 1..Len(str) : str[i] # sep
    THEN <<str>>
    ELSE LET k == CHOOSE i \in 1..Len(str) :
                      /\ str[i] = sep
                      /\ \A j \in 1..(i - 1) : str[j] # sep
         IN  <<SubSeq(str, 1, k - 1)>> \o split(SubSeq(str, k + 1, Len(str)), sep)

RECURSIVE join(_, _)
\* [String]::join(&str)
join(parts, sep) ==
    IF parts = <<>> THEN <<>>
    ELSE IF Len(parts) = 1 THEN parts[1]
    ELSE parts[1] \o sep \o join(Tail(parts), sep)

(***************************************************************************)
(* Constants of the crate                                                  *)
(***************************************************************************)

ARN_PREFIX == <<"a", "r", "n">>

ARN_SEPARATOR == ":"

ARN_SEPARATOR_STR == <<":">>

DEFAULT_PARTITION == <<"a", "w", "s">>

PATH_SEPARATOR == "/"

WILD == <<"*">>

\* Regex ^aws(\-[a-zA-Z][a-zA-Z0-9\-]+)?$
PARTITION_is_match(str) ==
    \/ str = <<"a", "w", "s">>
    \/ /\ Len(str) >= 6
       /\ SubSeq(str, 1, 4) = <<"a", "w", "s", "-">>
       /\ IsAlpha(str[5])
       /\ \A i \in 6..Len(str) :
              IsAlpha(str[i]) \/ is_ascii_digit(str[i]) \/ str[i] = "-"

\* Regex ^[a-zA-Z][a-zA-Z0-9\-]+$
IDENTIFIER_is_match(str) ==
    /\ Len(str) >= 2
    /\ IsAlpha(str[1])
    /\ \A i \in 2..Len(str) :
           IsAlpha(str[i]) \/ is_ascii_digit(str[i]) \/ str[i] = "-"

(***************************************************************************)
(* Values: Option<String>, Resource, ARN, ArnError                         *)
(***************************************************************************)

None == [some |-> FALSE, val |-> <<>>]

Some(str) == [some |-> TRUE, val |-> str]

\* Option::unwrap_or
unwrap_or(opt, default) == IF opt.some THEN opt.val ELSE default

\* enum Resource; the fields a variant does not have are empty.
ResourceAny == [kind |-> "Any", the_type |-> <<>>, id |-> <<>>, qualifier |-> <<>>]

ResourceId(id) == [kind |-> "Id", the_type |-> <<>>, id |-> id, qualifier |-> <<>>]

ResourcePath(path) == [kind |-> "Path", the_type |-> <<>>, id |-> path, qualifier |-> <<>>]

ResourceTypedId(the_type, id) ==
    [kind |-> "TypedId", the_type |-> the_type, id |-> id, qualifier |-> <<>>]

ResourceQTypedId(the_type, id, qualifier) ==
    [kind |-> "QTypedId", the_type |-> the_type, id |-> id, qualifier |-> qualifier]

\* struct ARN
ARN(partition, service, region, account_id, resource) ==
    [partition |-> partition, service |-> service, region |-> region,
     account_id |-> account_id, resource |-> resource]

\* enum ArnError: the variants the parser and validate() return; only
\* InvalidResource carries a string.
ArnError(kind) == [kind |-> kind, arg |-> <<>>]

InvalidResource(str) == [kind |-> "InvalidResource", arg |-> str]

\* No value: the field of a record that holds none.
NoArn == ARN(None, <<>>, None, None, ResourceId(<<>>))

NoErr == ArnError("None")

Ok(a) == [ok |-> TRUE, arn |-> a, err |-> NoErr]

Err(e) == [ok |-> FALSE, arn |-> NoArn, err |-> e]

(***************************************************************************)
(* Resource                                                                *)
(***************************************************************************)

\* fn must_not_contain: Ok(()) is NoErr.
must_not_contain(str, c, chars) ==
    IF str_contains(str, chars) THEN InvalidResource(c) ELSE NoErr

\* Result::and_then on a validation result
and_then(r1, r2) == IF r1 # NoErr THEN r1 ELSE r2

\* Resource::validate by the table of the crate's documentation: '*' is
\* refused in every id and allowed in the_type and in the qualifier.
Resource_validate_as_documented(r) ==
    CASE r.kind = "Id" ->
            must_not_contain(r.id, <<"i", "d">>, {":", "/", "*"})
      [] r.kind = "Path" ->
            must_not_contain(r.id, <<"p", "a", "t", "h">>, {":"})
      [] r.kind = "TypedId" ->
            and_then(must_not_contain(r.the_type, <<"t", "h", "e", "_", "t", "y", "p", "e">>,
                                      {":", "/"}),
                     must_not_contain(r.id, <<"i", "d">>, {":", "/", "*"}))
      [] r.kind = "QTypedId" ->
            and_then(must_not_contain(r.the_type, <<"t", "h", "e", "_", "t", "y", "p", "e">>,
                                      {":", "/"}),
                and_then(must_not_contain(r.id, <<"i", "d">>, {":", "/", "*"}),
                         must_not_contain(r.qualifier,
                                          <<"q", "u", "a", "l", "i", "f", "i", "e", "r">>,
                                          {":", "/"})))
      [] OTHER -> NoErr

\* Resource::validate
Resource_validate(r) ==
    CASE r.kind = "Id" ->
            must_not_contain(r.id, <<"i", "d">>, {":", "/", "*"})
      [] r.kind = "Path" ->
            must_not_contain(r.id, <<"p", "a", "t", "h">>, {":"})
      [] r.kind = "TypedId" ->
            and_then(must_not_contain(r.the_type, <<"t", "h", "e", "_", "t", "y", "p", "e">>,
                                      {":", "/", "*"}),
                     must_not_contain(r.id, <<"i", "d">>, {":", "/"}))
      [] r.kind = "QTypedId" ->
            and_then(must_not_contain(r.the_type, <<"t", "h", "e", "_", "t", "y", "p", "e">>,
                                      {":", "/", "*"}),
                and_then(must_not_contain(r.id, <<"i", "d">>, {":", "/"}),
                         must_not_contain(r.qualifier,
                                          <<"q", "u", "a", "l", "i", "f", "i", "e", "r">>,
                                          {":", "/", "*"})))
      [] OTHER -> NoErr

\* Display for Resource that leaves the qualifier out.
Resource_fmt_no_qualifier(r) ==
    CASE r.kind = "Any" -> WILD
      [] r.kind = "Id" -> r.id
      [] r.kind = "Path" -> r.id
      [] r.kind = "TypedId" -> r.the_type \o <<ARN_SEPARATOR>> \o r.id
      [] r.kind = "QTypedId" -> r.the_type \o <<ARN_SEPARATOR>> \o r.id

\* impl Display for Resource
Resource_fmt(r) ==
    CASE r.kind = "Any" -> WILD
      [] r.kind = "Id" -> r.id
      [] r.kind = "Path" -> r.id
      [] r.kind = "TypedId" -> r.the_type \o <<ARN_SEPARATOR>> \o r.id
      [] r.kind = "QTypedId" ->
            r.the_type \o <<ARN_SEPARATOR>> \o r.id \o <<ARN_SEPARATOR>> \o r.qualifier

\* impl FromStr for Resource: [ok, res, err]
Resource_from_str(str) ==
    IF str = <<>> THEN [ok |-> FALSE, res |-> ResourceAny, err |-> ArnError("MissingResource")]
    ELSE IF str = WILD THEN [ok |-> TRUE, res |-> ResourceAny, err |-> NoErr]
    ELSE IF str_contains(str, {ARN_SEPARATOR}) THEN
        LET parts == split(str, ARN_SEPARATOR) IN
        IF Len(parts) = 2
        THEN [ok |-> TRUE, res |-> ResourceTypedId(parts[1], parts[2]), err |-> NoErr]
        ELSE IF Len(parts) = 3
        THEN [ok |-> TRUE, res |-> ResourceQTypedId(parts[1], parts[2], parts[3]),
              err |-> NoErr]
        ELSE [ok |-> FALSE, res |-> ResourceAny, err |-> InvalidResource(str)]
    ELSE IF str_contains(str, {PATH_SEPARATOR})
    THEN [ok |-> TRUE, res |-> ResourcePath(str), err |-> NoErr]
    ELSE [ok |-> TRUE, res |-> ResourceId(str), err |-> NoErr]

(***************************************************************************)
(* ARN                                                                     *)
(***************************************************************************)

\* ARN::validate (the ext_validation feature is off: the stub is_registered
\* returns false): the error, or NoErr for Ok(()).
ARN_validate(a) ==
    IF a.partition.some /\ ~PARTITION_is_match(a.partition.val)
    THEN ArnError("InvalidPartition")
    ELSE IF ~IDENTIFIER_is_match(a.service)
    THEN ArnError("InvalidService")
    ELSE IF a.region.some /\ ~IDENTIFIER_is_match(a.region.val)
    THEN ArnError("InvalidRegion")
    ELSE IF /\ a.account_id.some
            /\ \/ str_len(a.account_id.val) # 12
               \/ ~(\A i \in 1..Len(a.account_id.val) : is_ascii_digit(a.account_id.val[i]))
    THEN ArnError("InvalidAccountId")
    ELSE Resource_validate(a.resource)

\* Display for ARN that shows an absent partition as an empty field.
ARN_fmt_no_default(a) ==
    join(<<ARN_PREFIX,
           unwrap_or(a.partition, <<>>),
           a.service,
           unwrap_or(a.region, <<>>),
           unwrap_or(a.account_id, <<>>),
           Resource_fmt(a.resource)>>,
         ARN_SEPARATOR_STR)

\* impl Display for ARN
ARN_fmt(a) ==
    join(<<ARN_PREFIX,
           unwrap_or(a.partition, DEFAULT_PARTITION),
           a.service,
           unwrap_or(a.region, <<>>),
           unwrap_or(a.account_id, <<>>),
           Resource_fmt(a.resource)>>,
         ARN_SEPARATOR_STR)

\* The field of an ARN parsed from a slice: None when the slice is empty.
field_of(slice) == IF slice = <<>> THEN None ELSE Some(slice)

\* FromStr for ARN that tests the prefix before the number of slices.
ARN_from_str_prefix_first(str) ==
    LET parts == split(str, ARN_SEPARATOR) IN
    IF parts[1] # ARN_PREFIX THEN Err(ArnError("MissingPrefix"))
    ELSE IF Len(parts) < 6 THEN Err(ArnError("TooFewComponents"))
    ELSE LET resource == Resource_from_str(
                             join(SubSeq(parts, 6, Len(parts)), ARN_SEPARATOR_STR))
         IN  IF ~resource.ok THEN Err(resource.err)
             ELSE LET new_arn == ARN(field_of(parts[2]), parts[3], field_of(parts[4]),
                                     field_of(parts[5]), resource.res)
                      v == ARN_validate(new_arn)
                  IN  IF v = NoErr THEN Ok(new_arn) ELSE Err(v)

\* FromStr for ARN that tests the prefix with starts_with.
ARN_from_str_starts_with(str) ==
    LET parts == split(str, ARN_SEPARATOR) IN
    IF Len(parts) < 6 THEN Err(ArnError("TooFewComponents"))
    ELSE IF ~(Len(parts[1]) >= 3 /\ SubSeq(parts[1], 1, 3) = ARN_PREFIX)
    THEN Err(ArnError("MissingPrefix"))
    ELSE LET resource == Resource_from_str(
                             join(SubSeq(parts, 6, Len(parts)), ARN_SEPARATOR_STR))
         IN  IF ~resource.ok THEN Err(resource.err)
             ELSE LET new_arn == ARN(field_of(parts[2]), parts[3], field_of(parts[4]),
                                     field_of(parts[5]), resource.res)
                      v == ARN_validate(new_arn)
                  IN  IF v = NoErr THEN Ok(new_arn) ELSE Err(v)

\* impl FromStr for ARN
ARN_from_str(str) ==
    LET parts == split(str, ARN_SEPARATOR) IN
    IF Len(parts) < 6 THEN Err(ArnError("TooFewComponents"))
    ELSE IF parts[1] # ARN_PREFIX THEN Err(ArnError("MissingPrefix"))
    ELSE LET resource == Resource_from_str(
                             join(SubSeq(parts, 6, Len(parts)), ARN_SEPARATOR_STR))
         IN  IF ~resource.ok THEN Err(resource.err)
             ELSE LET new_arn == ARN(field_of(parts[2]), parts[3], field_of(parts[4]),
                                     field_of(parts[5]), resource.res)
                      v == ARN_validate(new_arn)
                  IN  IF v = NoErr THEN Ok(new_arn) ELSE Err(v)


(***************************************************************************)
(* ResourceBuilder: the value is the Resource under construction           *)
(***************************************************************************)

\* ResourceBuilder::new: panics on a ':' in the argument.
ResourceBuilder_new(id_or_path) ==
    IF str_contains(id_or_path, {":"})
    THEN [panicked |-> TRUE, resource |-> ResourceAny]
    ELSE IF str_contains(id_or_path, {"/"})
    THEN [panicked |-> FALSE, resource |-> ResourcePath(id_or_path)]
    ELSE [panicked |-> FALSE, resource |-> ResourceId(id_or_path)]

\* ResourceBuilder::any
ResourceBuilder_any == ResourceBuilder_new(WILD)

\* ResourceBuilder::is_a (is_an and has_type call it)
is_a(r, the_type) ==
    CASE r.kind = "Any" -> ResourceTypedId(the_type, WILD)
      [] r.kind \in {"Id", "Path", "TypedId"} -> ResourceTypedId(the_type, r.id)
      [] r.kind = "QTypedId" -> ResourceQTypedId(the_type, r.id, r.qualifier)

\* ResourceBuilder::with that gives every resource the wildcard type.
with_any_type(r, qualifier) ==
    CASE r.kind = "Any" -> ResourceQTypedId(WILD, WILD, qualifier)
      [] OTHER -> ResourceQTypedId(WILD, r.id, qualifier)

\* ResourceBuilder::with (with_version calls it with the number's digits)
with(r, qualifier) ==
    CASE r.kind = "Any" -> ResourceQTypedId(WILD, WILD, qualifier)
      [] r.kind \in {"Id", "Path"} -> ResourceQTypedId(WILD, r.id, qualifier)
      [] r.kind \in {"TypedId", "QTypedId"} -> ResourceQTypedId(r.the_type, r.id, qualifier)

\* ResourceBuilder::build: the resource when validate() accepts it, or its
\* error.
ResourceBuilder_build(r) ==
    LET v == Resource_validate(r)
    IN  IF v = NoErr THEN [ok |-> TRUE, res |-> r, err |-> NoErr]
        ELSE [ok |-> FALSE, res |-> ResourceAny, err |-> v]

(***************************************************************************)
(* ArnBuilder: the value is the ARN under construction                     *)
(***************************************************************************)

\* ArnBuilder::new that starts in the default partition.
ArnBuilder_new_default_partition(service) ==
    ARN(Some(DEFAULT_PARTITION), service, None, None, ResourceId(<<>>))

\* ArnBuilder::new
ArnBuilder_new(service) == ARN(None, service, None, None, ResourceId(<<>>))

\* ArnBuilder::in_partition
in_partition(b, partition) == [b EXCEPT !.partition = Some(partition)]

\* ArnBuilder::in_any_partition
in_any_partition(b) == [b EXCEPT !.partition = None]

\* ArnBuilder::in_region (and_region calls it)
in_region(b, region) == [b EXCEPT !.region = Some(region)]

\* ArnBuilder::in_any_region
in_any_region(b) == in_region(b, WILD)

\* ArnBuilder::in_account (and_account and owned_by call it)
in_account(b, account) == [b EXCEPT !.account_id = Some(account)]

\* ArnBuilder::in_any_account
in_any_account(b) == in_account(b, WILD)

\* ArnBuilder::resource (is and a call it)
resource(b, r) == [b EXCEPT !.resource = r]

\* ArnBuilder::any_resource (for_any_resource calls it)
any_resource(b) == [b EXCEPT !.resource = ResourceAny]

\* ArnBuilder::build: the ARN when validate() accepts it, or its error.
ArnBuilder_build(b) ==
    LET new_arn == b
        v == ARN_validate(new_arn)
    IN  IF v = NoErr THEN Ok(new_arn) ELSE Err(v)

(***************************************************************************)
(* ResourceName and the S3 helper functions                                *)
(***************************************************************************)

\* struct ResourceName: the ARN record whose resource is a
\* ResourceIdentifier, a string.
ResourceName(partition, service, region, account_id, resource_id) ==
    [partition |-> partition, service |-> service, region |-> region,
     account_id |-> account_id, resource |-> resource_id]

\* No ResourceName: the value of a call that panicked.
NoName == ResourceName(None, <<>>, None, None, <<>>)

\* Service::S3.into(): the Identifier 's3'
S3_into == <<"s", "3">>

\* ResourceIdentifier::from_path: the components joined with '/'.
from_path(components) == join(components, <<PATH_SEPARATOR>>)

\* s3::object_from that builds the object's name in the bucket's partition
\* and leaves region and account out.
object_from_rebuilt(bucket, object_name) ==
    IF bucket.service # S3_into
    THEN [panicked |-> TRUE, value |-> NoName]
    ELSE [panicked |-> FALSE,
          value |-> ResourceName(bucket.partition, S3_into, None, None,
                                 from_path(<<bucket.resource, object_name>>))]

\* s3::object_from that does not test the service.
object_from_unchecked(bucket, object_name) ==
    [panicked |-> FALSE,
     value |-> [bucket EXCEPT !.resource = from_path(<<bucket.resource, object_name>>)]]

\* s3::object_from: panics unless the bucket's service is 's3'.
object_from(bucket, object_name) ==
    IF bucket.service # S3_into
    THEN [panicked |-> TRUE, value |-> NoName]
    ELSE [panicked |-> FALSE,
          value |-> [bucket EXCEPT !.resource = from_path(<<bucket.resource, object_name>>)]]

\* ArnBuilder::service_id: the name in the making has the service and
\* nothing else.
service_id(service) == ResourceName(None, service, None, None, <<>>)

\* Service::IdentityAccessManagement.into(): the Identifier 'iam'
IdentityAccessManagement_into == <<"i", "a", "m">>

\* iam::root that leaves the account out.
root_any_account(account) ==
    resource(service_id(IdentityAccessManagement_into), <<"r", "o", "o", "t">>)

\* iam::root: service_id(iam).owned_by(account).is('root').into()
root(account) ==
    resource(in_account(service_id(IdentityAccessManagement_into), account),
             <<"r", "o", "o", "t">>)

\* s3::bucket_in: service_id(s3).in_partition_id(partition).is(bucket_name).into()
bucket_in(partition, bucket_name) ==
    resource(in_partition(service_id(S3_into), partition), bucket_name)

\* impl Display for ResourceName: 'arn', the partition or the default one,
\* the service, the region or nothing, the account or nothing, the resource.
ResourceName_fmt(n) ==
    join(<<ARN_PREFIX,
           unwrap_or(n.partition, DEFAULT_PARTITION),
           n.service,
           unwrap_or(n.region, <<>>),
           unwrap_or(n.account_id, <<>>),
           n.resource>>,
         ARN_SEPARATOR_STR)

(***************************************************************************)
(* Identifier, AccountIdentifier, ResourceIdentifier: the operations that  *)
(* the tests and the service helpers call                                  *)
(***************************************************************************)

\* Identifier::is_valid: non-empty, every character after 0x1F and before
\* 0x7F, and none of them a space, a '/' or a ':'.
Identifier_is_valid(str) ==
    /\ str # <<>>
    /\ \A i \in 1..Len(str) :
           Code(str[i]) > 31 /\ Code(str[i]) < 127 /\ str[i] \notin {" ", "/", ":"}

\* Identifier::from_str that cuts the string at byte 1 to look at its first
\* character: a panic when that byte is inside a character.
Identifier_from_str_byte_slice(str) ==
    IF str # <<>> /\ len_utf8(str[1]) > 1
    THEN [panicked |-> TRUE, ok |-> FALSE, value |-> <<>>, err |-> NoErr]
    ELSE IF Identifier_is_valid(str)
    THEN [panicked |-> FALSE, ok |-> TRUE, value |-> str, err |-> NoErr]
    ELSE [panicked |-> FALSE, ok |-> FALSE, value |-> <<>>,
          err |-> [kind |-> "InvalidIdentifier", arg |-> str]]

\* Identifier::from_str
Identifier_from_str(str) ==
    IF Identifier_is_valid(str)
    THEN [panicked |-> FALSE, ok |-> TRUE, value |-> str, err |-> NoErr]
    ELSE [panicked |-> FALSE, ok |-> FALSE, value |-> <<>>,
          err |-> [kind |-> "InvalidIdentifier", arg |-> str]]

\* AccountIdentifier::is_valid: twelve digits, or at most twelve digits and
\* wildcard characters with a wildcard character among them.
AccountIdentifier_is_valid(str) ==
    LET digits == \A i \in 1..Len(str) : is_ascii_digit(str[i])
        digits_or_wild == \A i \in 1..Len(str) :
                              is_ascii_digit(str[i]) \/ str[i] \in {"*", "?"}
    IN  \/ Len(str) = 12 /\ digits
        \/ str # <<>> /\ Len(str) <= 12 /\ digits_or_wild /\ ~digits

\* AccountIdentifier::from_str
AccountIdentifier_from_str(str) ==
    IF AccountIdentifier_is_valid(str)
    THEN [panicked |-> FALSE, ok |-> TRUE, value |-> str, err |-> NoErr]
    ELSE [panicked |-> FALSE, ok |-> FALSE, value |-> <<>>,
          err |-> [kind |-> "InvalidAccountId", arg |-> str]]

\* ResourceIdentifier::is_valid: non-empty, every character after 0x1F and
\* before 0x7F.
ResourceIdentifier_is_valid(str) ==
    /\ str # <<>>
    /\ \A i \in 1..Len(str) : Code(str[i]) > 31 /\ Code(str[i]) < 127

\* ResourceIdentifier::from_str that accepts every string.
ResourceIdentifier_from_str_unchecked(str) ==
    [panicked |-> FALSE, ok |-> TRUE, value |-> str, err |-> NoErr]

\* ResourceIdentifier::from_str
ResourceIdentifier_from_str(str) ==
    IF ResourceIdentifier_is_valid(str)
    THEN [panicked |-> FALSE, ok |-> TRUE, value |-> str, err |-> NoErr]
    ELSE [panicked |-> FALSE, ok |-> FALSE, value |-> <<>>, err |-> InvalidResource(str)]

\* The variable pattern \$\{([^$}]+)\} matched at position i: the position
\* of the closing '}', or 0 when there is no match at i.
variable_end(str, i) ==
    IF i + 3 <= Len(str) /\ str[i] = "$" /\ str[i + 1] = "{"
          /\ \E j \in (i + 2)..Len(str) : str[j] = "}"
    THEN LET j == CHOOSE j \in (i + 2)..Len(str) :
                      /\ str[j] = "}"
                      /\ \A k \in (i + 2)..(j - 1) : str[k] # "}"
         IN  IF j >= i + 3 /\ \A k \in (i + 2)..(j - 1) : str[k] # "$"
             THEN j ELSE 0
    ELSE 0

\* The variable pattern with * for +: the name may be empty.
variable_end_empty_name(str, i) ==
    IF i + 2 <= Len(str) /\ str[i] = "$" /\ str[i + 1] = "{"
          /\ \E j \in (i + 2)..Len(str) : str[j] = "}"
    THEN LET j == CHOOSE j \in (i + 2)..Len(str) :
                      /\ str[j] = "}"
                      /\ \A k \in (i + 2)..(j - 1) : str[k] # "}"
         IN  IF \A k \in (i + 2)..(j - 1) : str[k] # "$" THEN j ELSE 0
    ELSE 0

\* has_variables with the pattern that lets the name be empty.
has_variables_empty_name(str) == \E i \in 1..Len(str) : variable_end_empty_name(str, i) # 0

\* ResourceIdentifier::has_variables: the pattern matches somewhere.
has_variables(str) == \E i \in 1..Len(str) : variable_end(str, i) # 0

\* has_wildcards that looks for '*' only.
has_wildcards_star_only(str) == \E i \in 1..Len(str) : str[i] = "*"

\* IdentifierLike::has_wildcards
has_wildcards(str) == \E i \in 1..Len(str) : str[i] \in {"*", "?"}

\* IdentifierLike::is_any: true of a string of '*' alone, false of a string
\* without '*'; nothing says which for a string that mixes '*' with other
\* characters, so both answers are possible there.
is_any(str) ==
    IF str # <<>> /\ \A i \in 1..Len(str) : str[i] = "*" THEN {TRUE}
    ELSE IF \A i \in 1..Len(str) : str[i] # "*" THEN {FALSE}
    ELSE BOOLEAN

\* IdentifierLike::is_plain of Identifier and AccountIdentifier
is_plain(str) == ~has_wildcards(str)

\* ResourceIdentifier::is_plain
ResourceIdentifier_is_plain(str) == ~has_wildcards(str) /\ ~has_variables(str)

RECURSIVE replace_all_rescan(_, _, _)
\* Regex::replace_all that scans the replacement value too: a placeholder
\* inside a value is replaced in the same call.
replace_all_rescan(str, i, context) ==
    IF i > Len(str) THEN <<>>
    ELSE LET j == variable_end(str, i) IN
         IF j = 0 THEN <<str[i]>> \o replace_all_rescan(str, i + 1, context)
         ELSE LET name == SubSeq(str, i + 2, j - 1) IN
              IF name \in DOMAIN context
              THEN replace_all_rescan(context[name] \o SubSeq(str, j + 1, Len(str)),
                                      1, context)
              ELSE SubSeq(str, i, j) \o replace_all_rescan(str, j + 1, context)

RECURSIVE replace_all(_, _, _)
\* Regex::replace_all with the variable pattern, from position i on: a
\* match whose name is a key of the context is replaced by the key's value,
\* any other match is written back as it is; the scan goes on after the match.
replace_all(str, i, context) ==
    IF i > Len(str) THEN <<>>
    ELSE LET j == variable_end(str, i) IN
         IF j = 0 THEN <<str[i]>> \o replace_all(str, i + 1, context)
         ELSE LET name == SubSeq(str, i + 2, j - 1) IN
              (IF name \in DOMAIN context THEN context[name] ELSE SubSeq(str, i, j))
              \o replace_all(str, j + 1, context)

\* replace_variables that returns the new text without parsing it.
replace_variables_unparsed(str, context) ==
    ResourceIdentifier_from_str_unchecked(replace_all(str, 1, context))

\* replace_variables that fails when a name is not a key of the context.
replace_variables_strict(str, context) ==
    IF \E i \in 1..Len(str) :
           /\ variable_end(str, i) # 0
           /\ SubSeq(str, i + 2, variable_end(str, i) - 1) \notin DOMAIN context
    THEN [panicked |-> FALSE, ok |-> FALSE, value |-> <<>>, err |-> InvalidResource(str)]
    ELSE ResourceIdentifier_from_str(replace_all(str, 1, context))

\* ResourceIdentifier::replace_variables: the substituted text, parsed again.
replace_variables(str, context) ==
    ResourceIdentifier_from_str(replace_all(str, 1, context))

\* from_qualified_id that joins with the path separator.
from_qualified_id_as_path(components) == join(components, <<PATH_SEPARATOR>>)

\* ResourceIdentifier::from_id_path: the Identifiers joined with '/'.
from_id_path(components) == join(components, <<PATH_SEPARATOR>>)

\* ResourceIdentifier::from_qualified_id: the Identifiers joined with ':'.
from_qualified_id(components) == join(components, ARN_SEPARATOR_STR)

\* ResourceIdentifier::path_split
path_split(str) == split(str, PATH_SEPARATOR)

\* ResourceIdentifier::qualifier_split
qualifier_split(str) == split(str, ARN_SEPARATOR)

(***************************************************************************)
(* Inputs                                                                  *)
(***************************************************************************)

\* The longest string enumerated over an alphabet for a single field.
MaxIdLen == 2

\* The most ':'-separated slices an input's resource part is built from.
MaxResourceParts == 4

\* Every string over the alphabet A of at most n characters.
StrsUpTo(A, n) == UNION {[1..k -> A] : k \in 0..n}

Aws == <<"a", "w", "s">>

S3 == <<"s", "3">>

Ca1 == <<"c", "a", "-", "1">>

Digits12 == <<"1", "2", "3", "4", "5", "6", "7", "8", "9", "0", "1", "2">>

NotAnArn == <<"n", "o", "t", "-", "a", "n", "-", "a", "r", "n">>

\* Slices the inputs are assembled from, by position.
Prefixes == {ARN_PREFIX, <<"A", "R", "N">>, <<"a", "r", "n", " ">>, <<>>}

Partitions == {<<>>, Aws, <<"a", "w", "s", "-", "c", "n">>, <<"a", "w", "s", "-", "c">>,
               <<"c", "n">>}

Services == {S3, <<"a">>, <<>>}

Regions == {<<>>, Ca1, <<"*">>}

Accounts == {<<>>, Digits12, <<"*">>, Aws}

ResourceSlices == {<<"x">>, <<"*">>}

ResourceExtras == {<<<<>>>>, <<<<"a", "/", "b">>>>, <<<<"a", "b", "*">>>>,
                   <<<<"x">>, <<>>>>}

\* The resource part as a sequence of 1..MaxResourceParts slices.
ResourceTails ==
    ResourceExtras \cup UNION {[1..k -> ResourceSlices] : k \in 1..MaxResourceParts}

IdAlphabet == {"a", "1", "-", "_", "$", ".", "*", "?", "/", ":", " ", "\t", "\n", "\r", "U+E9"}

\* Account ids: twelve digits, nine digits, thirteen digits, wildcards,
\* letters, and a string of twelve bytes that has a two-byte character.
AccountProbes ==
    {Digits12, SubSeq(Digits12, 1, 9), Digits12 \o <<"3">>,
     <<"*">>, <<"1", "2", "3", "4", "5", "*">>, <<"2", "?", "?", "6", "?", "*", "?", "8">>,
     SubSeq(Digits12, 1, 9) \o <<"*">>, SubSeq(Digits12, 1, 11) \o <<"*">>,
     SubSeq(Digits12, 1, 12) \o <<"*">>, SubSeq(Digits12, 1, 11) \o <<"a">>,
     SubSeq(Digits12, 1, 10) \o <<"U+E9">>, SubSeq(Digits12, 1, 11) \o <<"U+E9">>,
     Aws, <<"a">>, <<" ">>, <<"/">>, <<"\t">>}

Arn6(p0, p1, p2, p3, p4, tail) ==
    join(<<p0, p1, p2, p3, p4>> \o tail, ARN_SEPARATOR_STR)

\* Inputs with every combination of the slices above.
FieldInputs ==
    {Arn6(p0, p1, p2, p3, p4, tail) :
        p0 \in Prefixes, p1 \in Partitions, p2 \in Services, p3 \in Regions,
        p4 \in Accounts, tail \in ResourceTails}

\* Inputs of fewer than six slices: prefixes of the six-slice inputs.
ShortInputs ==
    {NotAnArn} \cup
    {join(SubSeq(<<p0, p1, S3, <<>>, <<>>>>, 1, k), ARN_SEPARATOR_STR) :
        p0 \in Prefixes, p1 \in Partitions, k \in 1..5}

\* Inputs that vary one field over every short string, the others valid.
ProbeInputs ==
    {Arn6(ARN_PREFIX, Aws, f, <<>>, <<>>, <<<<"x">>>>) : f \in StrsUpTo(IdAlphabet, MaxIdLen)}
    \cup
    {Arn6(ARN_PREFIX, Aws, S3, f, <<>>, <<<<"x">>>>) : f \in StrsUpTo(IdAlphabet, MaxIdLen)}
    \cup
    {Arn6(ARN_PREFIX, Aws, S3, <<>>, f, <<<<"x">>>>) : f \in AccountProbes}
    \cup
    {Arn6(ARN_PREFIX, Aws, S3, <<>>, <<>>, <<f>>) : f \in StrsUpTo(IdAlphabet, MaxIdLen)}
    \cup
    {Arn6(ARN_PREFIX, <<"a", "w", "s", "-">> \o f, S3, <<>>, <<>>, <<<<"x">>>>) :
        f \in StrsUpTo({"c", "1", "-", "_"}, MaxIdLen)}

Iam == <<"i", "a", "m">>

Lambda == <<"l", "a", "m", "b", "d", "a">>

\* 'arn:aws:iam::aws:policy/a': an AWS-managed IAM policy, the account
\* field being the literal 'aws'.
ManagedPolicyArn ==
    Arn6(ARN_PREFIX, Aws, Iam, <<>>, Aws, <<<<"p", "o", "l", "i", "c", "y", "/", "a">>>>)

\* 'arn:aws:lambda:ca-1:123456789012:layer:my-layer:3'
LayerVersionArn ==
    Arn6(ARN_PREFIX, Aws, Lambda, Ca1, Digits12,
         <<<<"l", "a", "y", "e", "r">>, <<"m", "y", "-", "l", "a", "y", "e", "r">>, <<"3">>>>)

\* The ARN strings of the crate's tests.
TestInputs == {ManagedPolicyArn, LayerVersionArn}

Inputs == ShortInputs \cup FieldInputs \cup ProbeInputs \cup TestInputs

\* ARN values constructed directly, field by field (the fields are public).
Resources ==
    {ResourceAny, ResourceId(<<"x">>), ResourceId(<<>>), ResourcePath(<<"a", "/", "b">>),
     ResourceTypedId(<<"x">>, <<"*">>), ResourceQTypedId(<<"x">>, <<"b">>, <<"3">>),
     ResourceId(<<"a", ":", "b">>)}

Constructed ==
    {ARN(p, sv, r, a, res) :
        p \in {None, Some(Aws), Some(<<"c", "n">>)},
        sv \in {S3, <<"a">>},
        r \in {None, Some(Ca1), Some(<<"*">>)},
        a \in {None, Some(Digits12), Some(<<"*">>)},
        res \in Resources}

(***************************************************************************)
(* The state machine: an input is parsed or an ARN is constructed; the     *)
(* ARN is validated, displayed, and the displayed string parsed again.     *)
(***************************************************************************)

Init ==
    /\ pc = "start"
    /\ s = <<>>
    /\ arn = NoArn
    /\ err = NoErr
    /\ shown = <<>>
    /\ arn2 = NoArn
    /\ err2 = NoErr
    /\ builder = NoArn
    /\ calls = <<>>
    /\ op = [name |-> "none"]

\* str.parse::<ARN>()
FromStr ==
    /\ pc = "start"
    /\ \E str \in Inputs :
          /\ s' = str
          /\ arn' = ARN_from_str(str).arn
          /\ err' = ARN_from_str(str).err
    /\ pc' = IF err' = NoErr THEN "parsed" ELSE "failed"
    /\ UNCHANGED <<shown, arn2, err2, builder, calls, op>>

\* ARN { partition, service, region, account_id, resource }
Construct ==
    /\ pc = "start"
    /\ \E a \in Constructed : arn' = a
    /\ pc' = "built"
    /\ UNCHANGED <<s, err, shown, arn2, err2, builder, calls, op>>

\* arn.validate()
Validate ==
    /\ pc = "built"
    /\ err' = ARN_validate(arn)
    /\ pc' = "validated"
    /\ UNCHANGED <<s, arn, shown, arn2, err2, builder, calls, op>>

\* arn.to_string()
Display ==
    /\ pc \in {"parsed", "built", "validated"}
    /\ shown' = ARN_fmt(arn)
    /\ pc' = IF pc = "parsed" THEN "shown" ELSE "shown_built"
    /\ UNCHANGED <<s, arn, err, arn2, err2, builder, calls, op>>

\* arn.to_string().parse::<ARN>()
Reparse ==
    /\ pc \in {"shown", "shown_built"}
    /\ arn2' = ARN_from_str(shown).arn
    /\ err2' = ARN_from_str(shown).err
    /\ pc' = IF pc = "shown" THEN "reparsed" ELSE "reparsed_built"
    /\ UNCHANGED <<s, arn, err, shown, builder, calls, op>>

\* The ResourceNames handed to s3::object_from.
Buckets ==
    {ResourceName(p, sv, r, a, res) :
        p \in {None, Some(Aws), Some(<<"a", "w", "s", "-", "c", "n">>)},
        sv \in {S3, Iam, <<"s", "3", "x">>},
        r \in {None, Some(Ca1)},
        a \in {None, Some(Digits12)},
        res \in {<<"x">>, <<"a", "/", "b">>}}

\* A ResourceName exists (parsed or built elsewhere) and is named bucket.
MakeBucket ==
    /\ pc = "start"
    /\ \E b \in Buckets : op' = [name |-> "bucket", bucket |-> b]
    /\ pc' = "op"
    /\ UNCHANGED <<s, arn, err, shown, arn2, err2, builder, calls>>

\* s3::object_from(&bucket, object_name)
ObjectFrom ==
    /\ pc = "op"
    /\ op.name = "bucket"
    /\ \E object_name \in {<<"x">>, <<"a", "-", "1">>} :
          op' = [name |-> "object_from",
                 bucket |-> op.bucket,
                 object_name |-> object_name,
                 panicked |-> object_from(op.bucket, object_name).panicked,
                 derived |-> object_from(op.bucket, object_name).value]
    /\ UNCHANGED <<pc, s, arn, err, shown, arn2, err2, builder, calls>>

\* The longest template made of pieces.
MaxPieces == 3

\* The longest string written character by character.
MaxRawLen == 4

\* The most Identifiers joined into one resource.
MaxComponents == 3

\* The variable names of the templates.
VarNames == {<<"a">>, <<"b">>}

\* A piece of a template: literal text, or a variable ${name}.
Lit(text) == [var |-> FALSE, text |-> text]
Var(name) == [var |-> TRUE, text |-> name]
Pieces == {Lit(<<" ">>), Lit(<<"$">>), Lit(<<"a", "}">>)} \cup {Var(n) : n \in VarNames}

\* The text of a piece in a template.
piece_text(p) == IF p.var THEN <<"$", "{">> \o p.text \o <<"}">> ELSE p.text

RECURSIVE template(_)
\* The template a sequence of pieces spells.
template(pieces) ==
    IF pieces = <<>> THEN <<>>
    ELSE piece_text(Head(pieces)) \o template(Tail(pieces))

\* The contexts: every map from some of the variable names to replacement
\* values, among them a newline, a non-ASCII character, the empty string,
\* a value that is itself a placeholder and one that is a placeholder but
\* for its '$'.
ValuesOf(n) ==
    IF n = <<"a">>
    THEN {<<"x">>, <<"\n">>, <<>>, <<"$", "{", "b", "}">>, <<"{", "b", "}">>}
    ELSE {<<"x">>, <<"U+E9">>}
Contexts ==
    {c \in UNION {[D -> UNION {ValuesOf(n) : n \in VarNames}] : D \in SUBSET VarNames} :
        \A n \in DOMAIN c : c[n] \in ValuesOf(n)}

\* Strings written character by character, with broken placeholders and
\* wildcards among them.
RawStrings == StrsUpTo({"$", "{", "}", "a", "*", "?"}, MaxRawLen)

\* Components to join: Identifiers, and strings no Identifier can hold.
Layer == <<"l", "a", "y", "e", "r">>
MyLayer == <<"m", "y", "-", "l", "a", "y", "e", "r">>
Components ==
    {<<"x">>, <<"3">>, <<"*">>, Layer, MyLayer, <<"a", "/", "b">>, <<"a", ":", "b">>, <<>>}

\* id.replace_variables(&context) on a template spelled from pieces, and
\* replace_variables(&context) again on what it returned
ReplaceVariables ==
    /\ pc = "start"
    /\ \E pieces \in UNION {[1..k -> Pieces] : k \in 0..MaxPieces}, context \in Contexts :
          op' = [name |-> "replace_variables",
                 pieces |-> pieces,
                 str |-> template(pieces),
                 context |-> context,
                 result |-> replace_variables(template(pieces), context),
                 twice |-> LET once == replace_variables(template(pieces), context)
                           IN  IF once.ok THEN replace_variables(once.value, context)
                               ELSE once]
    /\ pc' = "op"
    /\ UNCHANGED <<s, arn, err, shown, arn2, err2, builder, calls>>

\* id.replace_variables(&context) on a string written character by character
ReplaceVariablesRaw ==
    /\ pc = "start"
    /\ \E str \in RawStrings, context \in {c \in Contexts : DOMAIN c \subseteq {<<"a">>}} :
          op' = [name |-> "replace_variables_raw",
                 str |-> str,
                 context |-> context,
                 result |-> replace_variables(str, context)]
    /\ pc' = "op"
    /\ UNCHANGED <<s, arn, err, shown, arn2, err2, builder, calls>>

\* new_unchecked(str), then is_any, has_wildcards, is_plain of the three
\* kinds and has_variables of ResourceIdentifier.
Predicates ==
    /\ pc = "start"
    /\ \E str \in RawStrings, any \in BOOLEAN :
          /\ any \in is_any(str)
          /\ op' = [name |-> "predicates",
                    str |-> str,
                    is_any |-> any,
                    has_wildcards |-> has_wildcards(str),
                    is_plain |-> is_plain(str),
                    has_variables |-> has_variables(str),
                    resource_is_plain |-> ResourceIdentifier_is_plain(str)]
    /\ pc' = "op"
    /\ UNCHANGED <<s, arn, err, shown, arn2, err2, builder, calls>>

\* from_id_path(&components) and from_qualified_id(&components), then
\* path_split and qualifier_split of what they made.
JoinSplit ==
    /\ pc = "start"
    /\ \E components \in UNION {[1..k -> Components] : k \in 1..MaxComponents} :
          op' = [name |-> "join_split",
                 components |-> components,
                 path |-> from_id_path(components),
                 path_parts |-> path_split(from_id_path(components)),
                 qualified |-> from_qualified_id(components),
                 qualifier_parts |-> qualifier_split(from_qualified_id(components))]
    /\ pc' = "op"
    /\ UNCHANGED <<s, arn, err, shown, arn2, err2, builder, calls>>

MaxCalls == 2

Call(name, arg) == [name |-> name, arg |-> arg]

\* ArnBuilder::new(service)
BuilderNew ==
    /\ pc = "start"
    /\ \E service \in {S3, <<"a">>} :
          /\ builder' = ArnBuilder_new(service)
          /\ calls' = <<Call("new", service)>>
    /\ pc' = "builder"
    /\ UNCHANGED <<s, arn, err, shown, arn2, err2, op>>

\* A setter may be called on the builder.
CanSet == pc = "builder" /\ Len(calls) <= MaxCalls

\* builder.in_partition(partition)
InPartition ==
    /\ CanSet
    /\ \E partition \in {Aws, <<"c", "n">>} :
          /\ builder' = in_partition(builder, partition)
          /\ calls' = Append(calls, Call("in_partition", partition))
    /\ UNCHANGED <<pc, s, arn, err, shown, arn2, err2, op>>

\* builder.in_any_partition()
InAnyPartition ==
    /\ CanSet
    /\ builder' = in_any_partition(builder)
    /\ calls' = Append(calls, Call("in_any_partition", <<>>))
    /\ UNCHANGED <<pc, s, arn, err, shown, arn2, err2, op>>

\* builder.in_region(region)
InRegion ==
    /\ CanSet
    /\ \E region \in {Ca1} :
          /\ builder' = in_region(builder, region)
          /\ calls' = Append(calls, Call("in_region", region))
    /\ UNCHANGED <<pc, s, arn, err, shown, arn2, err2, op>>

\* builder.in_any_region()
InAnyRegion ==
    /\ CanSet
    /\ builder' = in_any_region(builder)
    /\ calls' = Append(calls, Call("in_any_region", <<>>))
    /\ UNCHANGED <<pc, s, arn, err, shown, arn2, err2, op>>

\* builder.in_account(account)
InAccount ==
    /\ CanSet
    /\ \E account \in {Digits12} :
          /\ builder' = in_account(builder, account)
          /\ calls' = Append(calls, Call("in_account", account))
    /\ UNCHANGED <<pc, s, arn, err, shown, arn2, err2, op>>

\* builder.in_any_account()
InAnyAccount ==
    /\ CanSet
    /\ builder' = in_any_account(builder)
    /\ calls' = Append(calls, Call("in_any_account", <<>>))
    /\ UNCHANGED <<pc, s, arn, err, shown, arn2, err2, op>>

\* builder.resource(resource)
SetResource ==
    /\ CanSet
    /\ \E r \in Resources :
          /\ builder' = resource(builder, r)
          /\ calls' = Append(calls, Call("resource", r))
    /\ UNCHANGED <<pc, s, arn, err, shown, arn2, err2, op>>

\* builder.any_resource()
AnyResource ==
    /\ CanSet
    /\ builder' = any_resource(builder)
    /\ calls' = Append(calls, Call("any_resource", <<>>))
    /\ UNCHANGED <<pc, s, arn, err, shown, arn2, err2, op>>

\* builder.build()
Build ==
    /\ pc = "builder"
    /\ arn' = ArnBuilder_build(builder).arn
    /\ err' = ArnBuilder_build(builder).err
    /\ pc' = IF err' = NoErr THEN "built" ELSE "build_failed"
    /\ UNCHANGED <<s, shown, arn2, err2, builder, calls, op>>

\* The accounts handed to iam::root: twelve digits, and wildcarded ones.
RootAccounts ==
    {<<"1", "2", "3", "4", "5", "6", "7", "8", "9", "0", "1", "2">>, <<"*">>,
     <<"1", "2", "*">>, <<"1", "?", "3">>}

\* iam::root(account), then to_string()
Root ==
    /\ pc = "start"
    /\ \E account \in RootAccounts :
          op' = [name |-> "root",
                 account |-> account,
                 value |-> root(account),
                 shown |-> ResourceName_fmt(root(account))]
    /\ pc' = "op"
    /\ UNCHANGED <<s, arn, err, shown, arn2, err2, builder, calls>>

\* The strings a Resource value is made of.
ResourceParts ==
    {<<>>, <<"a">>, <<":">>, <<"/">>, <<"*">>, <<"a", "*">>, <<"a", "/", "b">>}

\* Resource values constructed directly (the variants are public).
ResourceValues ==
    {ResourceAny}
    \cup {ResourceId(i) : i \in ResourceParts}
    \cup {ResourcePath(p) : p \in ResourceParts}
    \cup {ResourceTypedId(t, i) : t \in ResourceParts, i \in ResourceParts}
    \cup {ResourceQTypedId(t, i, q) :
             t \in ResourceParts, i \in ResourceParts, q \in ResourceParts}

\* resource.validate(), resource.to_string() and Resource::from_str of the
\* displayed string, for a Resource constructed directly.
ResourceValidate ==
    /\ pc = "start"
    /\ \E r \in ResourceValues :
          op' = [name |-> "resource",
                 resource |-> r,
                 validate |-> Resource_validate(r),
                 shown |-> Resource_fmt(r),
                 reparsed |-> Resource_from_str(Resource_fmt(r))]
    /\ pc' = "op"
    /\ UNCHANGED <<s, arn, err, shown, arn2, err2, builder, calls>>

\* The most is_a and with calls made on one ResourceBuilder.
MaxResourceCalls == 3

\* ResourceBuilder::new(id_or_path)
ResourceBuilderNew ==
    /\ pc = "start"
    /\ \E id \in {<<"x">>, WILD, <<"a", "/", "b">>, <<"a", ":", "b">>} :
          op' = IF ResourceBuilder_new(id).panicked
                THEN [name |-> "resource_builder_panicked", id |-> id]
                ELSE [name |-> "resource_builder", ctor |-> "new", id |-> id,
                      rcalls |-> <<>>, resource |-> ResourceBuilder_new(id).resource]
    /\ pc' = "op"
    /\ UNCHANGED <<s, arn, err, shown, arn2, err2, builder, calls>>

\* ResourceBuilder::any()
ResourceBuilderAny ==
    /\ pc = "start"
    /\ op' = [name |-> "resource_builder", ctor |-> "any", id |-> WILD,
              rcalls |-> <<>>, resource |-> ResourceBuilder_any.resource]
    /\ pc' = "op"
    /\ UNCHANGED <<s, arn, err, shown, arn2, err2, builder, calls>>

\* builder.is_a(the_type), is_an(the_type), has_type(the_type)
IsA ==
    /\ pc = "op"
    /\ op.name = "resource_builder"
    /\ Len(op.rcalls) < MaxResourceCalls
    /\ \E the_type \in {<<"t">>, <<"u">>} :
          op' = [op EXCEPT !.rcalls = Append(@, Call("is_a", the_type)),
                           !.resource = is_a(@, the_type)]
    /\ UNCHANGED <<pc, s, arn, err, shown, arn2, err2, builder, calls>>

\* builder.with(qualifier), with_version(3)
With ==
    /\ pc = "op"
    /\ op.name = "resource_builder"
    /\ Len(op.rcalls) < MaxResourceCalls
    /\ \E qualifier \in {<<"q">>, <<"3">>} :
          op' = [op EXCEPT !.rcalls = Append(@, Call("with", qualifier)),
                           !.resource = with(@, qualifier)]
    /\ UNCHANGED <<pc, s, arn, err, shown, arn2, err2, builder, calls>>

\* builder.build()
ResourceBuild ==
    /\ pc = "op"
    /\ op.name = "resource_builder"
    /\ op' = [name |-> "resource_built", ctor |-> op.ctor, id |-> op.id,
              rcalls |-> op.rcalls, resource |-> op.resource,
              result |-> ResourceBuilder_build(op.resource)]
    /\ UNCHANGED <<pc, s, arn, err, shown, arn2, err2, builder, calls>>

\* The longest string handed to the parsers of the identifier kinds.
MaxParseLen == 3

\* The strings handed to the parsers of the identifier kinds: every short
\* string over letters, digits, wildcards, separators, a control character
\* and a non-ASCII character, and accounts of twelve and of nine digits.
ParseInputs ==
    StrsUpTo({"a", "1", "*", " ", ":", "\n", "U+E9"}, MaxParseLen)
    \cup {Digits12, SubSeq(Digits12, 1, 9)}

\* Identifier::from_str(&s), AccountIdentifier::from_str(&s) and
\* ResourceIdentifier::from_str(&s)
ParseIdentifiers ==
    /\ pc = "start"
    /\ \E str \in ParseInputs :
          op' = [name |-> "parse",
                 str |-> str,
                 identifier |-> Identifier_from_str(str),
                 account |-> AccountIdentifier_from_str(str),
                 resource |-> ResourceIdentifier_from_str(str)]
    /\ pc' = "op"
    /\ UNCHANGED <<s, arn, err, shown, arn2, err2, builder, calls>>

\* s3::bucket_in(partition, bucket_name), to_string() and the parse of the
\* displayed string
BucketIn ==
    /\ pc = "start"
    /\ \E partition \in {Aws, <<"a", "w", "s", "-", "c", "n">>, <<"c", "n">>, <<"*">>},
          bucket_name \in {<<"x">>, <<"m", "y", "-", "b">>, <<"a", "*">>} :
          op' = [name |-> "bucket_in",
                 partition |-> partition,
                 bucket_name |-> bucket_name,
                 value |-> bucket_in(partition, bucket_name),
                 shown |-> ResourceName_fmt(bucket_in(partition, bucket_name)),
                 parsed |-> ARN_from_str(ResourceName_fmt(bucket_in(partition, bucket_name)))]
    /\ pc' = "op"
    /\ UNCHANGED <<s, arn, err, shown, arn2, err2, builder, calls>>

\* Resource::from_str(&str) and to_string() of the parsed resource
ResourceFromStr ==
    /\ pc = "start"
    /\ \E str \in StrsUpTo({"a", ":", "/", "*"}, MaxRawLen) :
          op' = [name |-> "resource_from_str",
                 str |-> str,
                 result |-> Resource_from_str(str),
                 shown |-> IF Resource_from_str(str).ok
                           THEN Resource_fmt(Resource_from_str(str).res)
                           ELSE <<>>]
    /\ pc' = "op"
    /\ UNCHANGED <<s, arn, err, shown, arn2, err2, builder, calls>>

Next ==
    \/ FromStr \/ Construct \/ Validate \/ Display \/ Reparse
    \/ BuilderNew \/ InPartition \/ InAnyPartition \/ InRegion \/ InAnyRegion
    \/ InAccount \/ InAnyAccount \/ SetResource \/ AnyResource \/ Build
    \/ MakeBucket \/ ObjectFrom
    \/ ReplaceVariables \/ ReplaceVariablesRaw \/ Predicates \/ JoinSplit
    \/ Root \/ ResourceValidate
    \/ ResourceBuilderNew \/ ResourceBuilderAny \/ IsA \/ With \/ ResourceBuild
    \/ ParseIdentifiers \/ BucketIn \/ ResourceFromStr

Spec == Init /\ [][Next]_vars

(***************************************************************************)
(* The field rules as the specification states them                        *)
(***************************************************************************)

\* A printable ASCII character other than the space.
IsGraphic(c) == Code(c) \in 33..126

\* Identifier: non-empty, graphic ASCII without '/' and ':'.
IdentifierRule(str) ==
    /\ str # <<>>
    /\ \A i \in 1..Len(str) : IsGraphic(str[i]) /\ str[i] \notin {"/", ":"}

\* AccountIdentifier: twelve digits, or at most twelve digits and wildcards
\* with at least one wildcard.
AccountRule(str) ==
    \/ /\ Len(str) = 12
       /\ \A i \in 1..Len(str) : Code(str[i]) \in 48..57
    \/ /\ str # <<>>
       /\ Len(str) <= 12
       /\ \A i \in 1..Len(str) : Code(str[i]) \in 48..57 \/ str[i] \in {"*", "?"}
       /\ \E i \in 1..Len(str) : str[i] \in {"*", "?"}

\* ResourceIdentifier: non-empty, printable ASCII, the space included.
ResourceRule(str) ==
    /\ str # <<>>
    /\ \A i \in 1..Len(str) : Code(str[i]) \in 32..126

\* Partition: 'aws' or a string that begins with 'aws-', and an Identifier.
PartitionRule(str) ==
    /\ \/ str = <<"a", "w", "s">>
       \/ Len(str) >= 4 /\ SubSeq(str, 1, 4) = <<"a", "w", "s", "-">>
    /\ IdentifierRule(str)

\* The number of ':' in a string.
Colons(str) == Cardinality({i \in 1..Len(str) : str[i] = ":"})

\* The slices of the input and the text of its resource part.
Slices == split(s, ARN_SEPARATOR)

ResourceText == join(SubSeq(Slices, 6, Len(Slices)), ARN_SEPARATOR_STR)

\* The input has been handed to the parser.
Parsed == pc \in {"parsed", "failed", "shown", "reparsed"}

\* The input has six slices or more, the prefix 'arn', and every field is
\* valid by the rules above.
WellFormed ==
    /\ Len(Slices) >= 6
    /\ Slices[1] = <<"a", "r", "n">>
    /\ Slices[2] = <<>> \/ PartitionRule(Slices[2])
    /\ IdentifierRule(Slices[3])
    /\ Slices[4] = <<>> \/ IdentifierRule(Slices[4])
    /\ Slices[5] = <<>> \/ AccountRule(Slices[5])
    /\ ResourceRule(ResourceText)

(***************************************************************************)
(* Claims                                                                  *)
(***************************************************************************)

\* C1: every input of six slices or more with the prefix 'arn' and valid
\* fields parses; partition, region and account are slices 1, 3 and 4 (absent
\* when empty), service is slice 2 and the resource is slices 5.. re-joined
\* with ':', however many ':' the resource holds.
C1_ParseFields ==
    (Parsed /\ WellFormed) =>
        /\ err = NoErr
        /\ arn.partition = (IF Slices[2] = <<>> THEN None ELSE Some(Slices[2]))
        /\ arn.service = Slices[3]
        /\ arn.region = (IF Slices[4] = <<>> THEN None ELSE Some(Slices[4]))
        /\ arn.account_id = (IF Slices[5] = <<>> THEN None ELSE Some(Slices[5]))
        /\ Resource_fmt(arn.resource) = ResourceText

\* C2: the displayed string of every ARN value is 'arn:' P ':' service ':' R
\* ':' A ':' resource, P the partition or 'aws', R the region or empty, A the
\* account id or empty.
C2_DisplayFormat ==
    pc \in {"shown", "shown_built"} =>
        shown = <<"a", "r", "n", ":">>
                \o (IF arn.partition.some THEN arn.partition.val ELSE <<"a", "w", "s">>)
                \o <<":">> \o arn.service
                \o <<":">> \o (IF arn.region.some THEN arn.region.val ELSE <<>>)
                \o <<":">> \o (IF arn.account_id.some THEN arn.account_id.val ELSE <<>>)
                \o <<":">> \o Resource_fmt(arn.resource)

\* C2 witness: an ARN constructed without partition, region and account is
\* displayed with the default partition and two empty fields.
C2_Witness ==
    /\ pc = "shown_built"
    /\ arn = ARN(None, S3, None, None, ResourcePath(<<"a", "/", "b">>))
    /\ shown = <<"a", "r", "n", ":", "a", "w", "s", ":", "s", "3", ":", ":", ":",
                 "a", "/", "b">>

\* C3: every valid ARN string whose partition field is non-empty parses, and
\* the parsed ARN displays as the string itself.
C3_RoundTrip ==
    (Parsed /\ WellFormed /\ Slices[2] # <<>>) =>
        /\ err = NoErr
        /\ pc \in {"shown", "reparsed"} => shown = s

\* C4, as stated: parsing the displayed string of a parsed ARN succeeds and
\* gives an ARN equal to the first in all five fields.
C4_ReparseEqual ==
    pc = "reparsed" => err2 = NoErr /\ arn2 = arn

\* C4, amended: parsing the displayed string of a parsed ARN succeeds and
\* gives an ARN equal to the first in service, region, account and resource;
\* its partition is that of the first, or 'aws' where the first has none.
C4_ReparseEqualButPartition ==
    pc = "reparsed" =>
        /\ err2 = NoErr
        /\ arn2.service = arn.service
        /\ arn2.region = arn.region
        /\ arn2.account_id = arn.account_id
        /\ arn2.resource = arn.resource
        /\ arn2.partition =
               (IF arn.partition.some THEN arn.partition ELSE Some(<<"a", "w", "s">>))

\* C4 witness: an input with empty partition, region and account and a
\* qualified resource has been parsed, displayed and parsed again.
C4_Witness ==
    /\ pc = "reparsed"
    /\ Slices[2] = <<>> /\ Slices[4] = <<>> /\ Slices[5] = <<>>
    /\ arn.resource.kind = "QTypedId"
    /\ arn2.partition = Some(<<"a", "w", "s">>)

\* C5: a string of fewer than five ':' fails with TooFewComponents, whether
\* or not it begins with 'arn'.
C5_TooFewComponents ==
    (Parsed /\ Colons(s) < 5) => (pc = "failed" /\ err = ArnError("TooFewComponents"))

\* C5 witness: 'not-an-arn' and a five-slice string beginning with 'arn:'
\* are among the inputs; here the first has failed.
C5_Witness ==
    /\ pc = "failed"
    /\ s = NotAnArn
    /\ err = ArnError("TooFewComponents")

\* C6: a string of six slices or more whose first slice is not 'arn' fails
\* with MissingPrefix, whatever the other fields hold.
C6_MissingPrefix ==
    (Parsed /\ Colons(s) >= 5 /\ Slices[1] # <<"a", "r", "n">>) =>
        (pc = "failed" /\ err = ArnError("MissingPrefix"))

\* C6 witness: an input with the prefix 'ARN', an invalid partition and an
\* empty resource has failed with MissingPrefix.
C6_Witness ==
    /\ pc = "failed"
    /\ Slices[1] = <<"A", "R", "N">>
    /\ Len(Slices) = 6
    /\ Slices[2] = <<"c", "n">>
    /\ Slices[6] = <<>>
    /\ err = ArnError("MissingPrefix")

\* C7: a non-empty partition slice is accepted exactly when it is 'aws' or
\* begins with 'aws-' and is an Identifier; any other non-empty partition
\* fails with InvalidPartition; an empty slice gives an absent partition.
C7_PartitionGrammar ==
    (Parsed /\ Len(Slices) >= 6 /\ Slices[1] = <<"a", "r", "n">>) =>
        /\ (Slices[2] # <<>> /\ PartitionRule(Slices[2])) => err.kind # "InvalidPartition"
        /\ (Slices[2] # <<>> /\ ~PartitionRule(Slices[2])) => err.kind = "InvalidPartition"
        /\ (Slices[2] = <<>> /\ err = NoErr) => arn.partition = None

\* C8: a service or region slice is accepted if and only if it is non-empty
\* and made of graphic ASCII characters other than '/' and ':'.
C8_IdentifierValidity ==
    (Parsed /\ Len(Slices) >= 6 /\ Slices[1] = <<"a", "r", "n">>) =>
        /\ IdentifierRule(Slices[3]) => err.kind # "InvalidService"
        /\ ~IdentifierRule(Slices[3]) => err # NoErr
        /\ (Slices[4] # <<>> /\ IdentifierRule(Slices[4])) => err.kind # "InvalidRegion"
        /\ (Slices[4] # <<>> /\ ~IdentifierRule(Slices[4])) => err # NoErr

\* C9: an account slice is accepted if and only if it is twelve digits, or
\* at most twelve digits and wildcards with at least one wildcard.
C9_AccountValidity ==
    (Parsed /\ Len(Slices) >= 6 /\ Slices[1] = <<"a", "r", "n">> /\ Slices[5] # <<>>) =>
        /\ AccountRule(Slices[5]) => err.kind # "InvalidAccountId"
        /\ ~AccountRule(Slices[5]) => err # NoErr

\* C10: a resource is accepted if and only if it is non-empty and every
\* character is printable ASCII; the space, '/' and ':' are allowed.
C10_ResourceValidity ==
    (Parsed /\ Len(Slices) >= 6 /\ Slices[1] = <<"a", "r", "n">>) =>
        /\ ResourceRule(ResourceText) => err.kind \notin {"MissingResource", "InvalidResource"}
        /\ ~ResourceRule(ResourceText) => err # NoErr

\* C11: an AWS-managed IAM policy ARN, whose account field is the literal
\* 'aws', parses and displays back as the input string.
C11_ManagedPolicy ==
    (Parsed /\ s = ManagedPolicyArn) =>
        /\ err = NoErr
        /\ pc \in {"shown", "reparsed"} => shown = s

\* C14: s3::object_from(b, o) on a bucket b of service 's3' returns an ARN
\* whose resource is b.resource '/' o and whose partition, service, region and
\* account are those of b, and leaves b as it was.
C14_ObjectFromKeepsFields ==
    [][(op.name = "bucket" /\ op'.name = "object_from"
            /\ op.bucket.service = <<"s", "3">>) =>
          /\ op'.bucket = op.bucket
          /\ ~op'.panicked
          /\ op'.derived.resource = op.bucket.resource \o <<"/">> \o op'.object_name
          /\ op'.derived.partition = op.bucket.partition
          /\ op'.derived.service = op.bucket.service
          /\ op'.derived.region = op.bucket.region
          /\ op'.derived.account_id = op.bucket.account_id]_vars

\* C14 witness: an object 'x/a-1' has been derived from a bucket 'x' that has
\* a partition, a region and an account.
C14_Witness ==
    /\ op.name = "object_from"
    /\ op.bucket = ResourceName(Some(<<"a", "w", "s", "-", "c", "n">>), S3, Some(Ca1),
                                Some(Digits12), <<"x">>)
    /\ op.derived.resource = <<"x", "/", "a", "-", "1">>
    /\ op.derived.region = Some(Ca1)

\* C15: s3::object_from on an ARN whose service is not 's3' returns no ARN:
\* it panics, whatever the other fields are.
C15_ObjectFromPanics ==
    (op.name = "object_from" /\ op.bucket.service # <<"s", "3">>) =>
        (op.panicked /\ op.derived = NoName)

\* C15 witness: object_from has panicked on an ARN of service 'iam' that has
\* a partition, a region and an account.
C15_Witness ==
    /\ op.name = "object_from"
    /\ op.bucket.service = Iam
    /\ op.bucket.partition.some /\ op.bucket.region.some /\ op.bucket.account_id.some
    /\ op.panicked

\* C16: a failed parse carries the offending text: InvalidIdentifier(slice)
\* for an invalid service or region, InvalidAccountId(slice) for an invalid
\* account, InvalidResource(resource text) for an empty or invalid resource.
C16_TypedErrors ==
    (Parsed /\ Len(Slices) >= 6 /\ Slices[1] = <<"a", "r", "n">>
            /\ (Slices[2] = <<>> \/ PartitionRule(Slices[2]))) =>
        IF ~IdentifierRule(Slices[3])
        THEN err = [kind |-> "InvalidIdentifier", arg |-> Slices[3]]
        ELSE IF Slices[4] # <<>> /\ ~IdentifierRule(Slices[4])
        THEN err = [kind |-> "InvalidIdentifier", arg |-> Slices[4]]
        ELSE IF Slices[5] # <<>> /\ ~AccountRule(Slices[5])
        THEN err = [kind |-> "InvalidAccountId", arg |-> Slices[5]]
        ELSE ~ResourceRule(ResourceText) => err = InvalidResource(ResourceText)

\* C20: an ARN built from a service and a resource alone has no partition,
\* region or account and displays as 'arn:aws:' service ':::' resource.
C20_MinimalConstruction ==
    (/\ pc = "shown_built"
     /\ Len(calls) = 2
     /\ calls[1].name = "new"
     /\ calls[2].name = "resource") =>
        /\ arn.partition = None
        /\ arn.region = None
        /\ arn.account_id = None
        /\ shown = <<"a", "r", "n", ":", "a", "w", "s", ":">> \o calls[1].arg
                   \o <<":", ":", ":">> \o Resource_fmt(calls[2].arg)

\* C20 witness: the builder for 's3' with the resource 'a/b' alone has been
\* built and displayed as 'arn:aws:s3:::a/b'.
C20_Witness ==
    /\ pc = "shown_built"
    /\ Len(calls) = 2
    /\ calls[1] = Call("new", S3)
    /\ calls[2].name = "resource"
    /\ calls[2].arg = ResourcePath(<<"a", "/", "b">>)
    /\ arn.partition = None
    /\ shown = <<"a", "r", "n", ":", "a", "w", "s", ":", "s", "3", ":", ":", ":",
                 "a", "/", "b">>

RECURSIVE Substituted(_, _)
\* The text of a template's pieces with every variable that is a key of
\* the context replaced by its value, and everything else as it was.
Substituted(pieces, context) ==
    IF pieces = <<>> THEN <<>>
    ELSE (IF Head(pieces).var /\ Head(pieces).text \in DOMAIN context
          THEN context[Head(pieces).text]
          ELSE piece_text(Head(pieces)))
         \o Substituted(Tail(pieces), context)

\* C12: replace_variables substitutes by name: each placeholder whose name
\* is a key of the context is replaced by the key's value, any other
\* placeholder and all text outside placeholders stay as they were, and a
\* name that is not a key is not an error: whenever the substituted text is
\* a valid resource identifier, it is what the call returns.
C12_ReplaceByName ==
    (pc = "op" /\ op.name = "replace_variables") =>
        LET text == Substituted(op.pieces, op.context) IN
        ResourceRule(text) => op.result.ok /\ op.result.value = text

\* '${b} ${a}' with a -> 'x' and no value for b gives '${b} x'.
C12_Witness ==
    /\ pc = "op" /\ op.name = "replace_variables"
    /\ op.pieces = <<Var(<<"b">>), Lit(<<" ">>), Var(<<"a">>)>>
    /\ DOMAIN op.context = {<<"a">>}
    /\ op.context[<<"a">>] = <<"x">>
    /\ op.result.ok
    /\ op.result.value = <<"$", "{", "b", "}", " ", "x">>

\* C13: replace_variables validates what it returns: the result is a
\* non-empty string of printable ASCII, or the call fails with
\* InvalidResource; a forbidden character of a replacement value never
\* comes back inside a returned identifier.
C13_ReplaceRevalidates ==
    (pc = "op" /\ op.name \in {"replace_variables", "replace_variables_raw"}) =>
        \/ op.result.ok /\ ResourceRule(op.result.value)
        \/ ~op.result.ok /\ op.result.err.kind = "InvalidResource"

\* A newline comes in through the value of a, and the call fails.
C13_Witness ==
    /\ pc = "op" /\ op.name = "replace_variables"
    /\ op.pieces = <<Var(<<"b">>), Lit(<<" ">>), Var(<<"a">>)>>
    /\ DOMAIN op.context = {<<"a">>}
    /\ op.context[<<"a">>] = <<"\n">>
    /\ ~op.result.ok
    /\ op.result.err = InvalidResource(<<"$", "{", "b", "}", " ", "\n">>)

\* The string has '${', then one character or more that are neither '$'
\* nor '}', then '}'.
HasPlaceholder(str) ==
    \E i, j \in 1..Len(str) :
        /\ j >= i + 3
        /\ str[i] = "$" /\ str[i + 1] = "{" /\ str[j] = "}"
        /\ \A k \in (i + 2)..(j - 1) : str[k] \notin {"$", "}"}

\* The string has a '*' or a '?'.
HasWildcard(str) == \E i \in 1..Len(str) : str[i] = "*" \/ str[i] = "?"

\* C17: has_variables() of a resource identifier is true exactly when the
\* string has a substring '${', one or more characters other than '$' and
\* '}', then '}'; is_plain() of a resource identifier is true exactly when
\* the string has neither a wildcard character nor a variable.
C17_Variables ==
    (pc = "op" /\ op.name = "predicates") =>
        /\ op.has_variables <=> HasPlaceholder(op.str)
        /\ op.resource_is_plain <=> (~HasWildcard(op.str) /\ ~HasPlaceholder(op.str))

\* '${a}' has a variable and is not plain; '${}' and '${a' have none.
C17_Witness ==
    /\ pc = "op" /\ op.name = "predicates"
    /\ op.str = <<"$", "{", "a", "}">>
    /\ op.has_variables /\ ~op.resource_is_plain

\* '${}' has no variable: the name must have a character.
EmptyNameIsNoVariable ==
    /\ pc = "op" /\ op.name = "predicates"
    /\ op.str = <<"$", "{", "}">>
    /\ ~op.has_variables /\ op.resource_is_plain

\* C18: has_wildcards() is true exactly when the string has a '*' or a
\* '?'; is_any() is true of a string made of '*' alone ('*', '***') and
\* false of a string without '*'; is_plain() of an Identifier or an
\* AccountIdentifier is the negation of has_wildcards().
C18_Wildcards ==
    (pc = "op" /\ op.name = "predicates") =>
        /\ op.has_wildcards <=> HasWildcard(op.str)
        /\ (op.str # <<>> /\ \A i \in 1..Len(op.str) : op.str[i] = "*") => op.is_any
        /\ (\A i \in 1..Len(op.str) : op.str[i] # "*") => ~op.is_any
        /\ op.is_plain <=> ~op.has_wildcards

\* 'a?' has a wildcard, is not any and is not plain.
C18_Witness ==
    /\ pc = "op" /\ op.name = "predicates"
    /\ op.str = <<"a", "?">>
    /\ op.has_wildcards /\ ~op.is_any /\ ~op.is_plain

\* '***' is any.
ThreeStarsIsAny ==
    /\ pc = "op" /\ op.name = "predicates"
    /\ op.str = <<"*", "*", "*">>
    /\ op.is_any /\ op.has_wildcards

RECURSIVE Joined(_, _)
\* The components written one after the other with the separator
\* character between neighbours.
Joined(components, sep) ==
    IF Len(components) = 1 THEN components[1]
    ELSE components[1] \o <<sep>> \o Joined(Tail(components), sep)

\* C19: from_id_path joins the Identifiers with '/', from_qualified_id
\* joins them with ':'; when every component is a valid Identifier,
\* path_split of the path and qualifier_split of the qualified resource
\* give back the components, in order.
C19_JoinSplit ==
    (pc = "op" /\ op.name = "join_split") =>
        /\ op.path = Joined(op.components, "/")
        /\ op.qualified = Joined(op.components, ":")
        /\ (\A i \in 1..Len(op.components) : IdentifierRule(op.components[i])) =>
              /\ op.path_parts = op.components
              /\ op.qualifier_parts = op.components

\* layer, my-layer and 3 make the resource of the layer version ARN, which
\* splits back into the three.
C19_Witness ==
    /\ pc = "op" /\ op.name = "join_split"
    /\ op.components = <<Layer, MyLayer, <<"3">>>>
    /\ op.qualified = join(SubSeq(split(LayerVersionArn, ARN_SEPARATOR), 6, 8), ARN_SEPARATOR_STR)
    /\ op.qualifier_parts = <<Layer, MyLayer, <<"3">>>>
    /\ op.path_parts = <<Layer, MyLayer, <<"3">>>>

\* A component that no Identifier can hold does not come back: 'a/b' and
\* 'x' make the path 'a/b/x', which splits into three.
SeparatorInComponent ==
    /\ pc = "op" /\ op.name = "join_split"
    /\ op.components = <<<<"a", "/", "b">>, <<"x">>>>
    /\ op.path_parts = <<<<"a">>, <<"b">>, <<"x">>>>
    /\ op.qualifier_parts = op.components

\* C21: for every valid AccountIdentifier, the account-root conversion
\* gives an ARN with service 'iam', no region, that account and the resource
\* 'root', which displays as 'arn:aws:iam::' + account + ':root'.
C21_AccountRoot ==
    (pc = "op" /\ op.name = "root" /\ AccountRule(op.account)) =>
        /\ op.value.service = <<"i", "a", "m">>
        /\ op.value.region = None
        /\ op.value.account_id = Some(op.account)
        /\ op.value.resource = <<"r", "o", "o", "t">>
        /\ op.shown = <<"a", "r", "n", ":", "a", "w", "s", ":", "i", "a", "m", ":", ":">>
                      \o op.account \o <<":", "r", "o", "o", "t">>

\* The root of any account: 'arn:aws:iam::*:root'.
C21_Witness ==
    /\ pc = "op" /\ op.name = "root"
    /\ op.account = <<"*">>
    /\ op.shown = <<"a", "r", "n", ":", "a", "w", "s", ":", "i", "a", "m", ":", ":", "*",
                    ":", "r", "o", "o", "t">>

\* The string has one of the characters.
Has(str, chars) == \E i \in 1..Len(str) : str[i] \in chars

WildcardTypeRefused ==
    /\ pc = "op" /\ op.name = "resource"
    /\ op.resource = ResourceTypedId(<<"a", "*">>, <<"a">>)
    /\ op.validate = InvalidResource(<<"t", "h", "e", "_", "t", "y", "p", "e">>)

\* C23: ResourceBuilder::any().build() succeeds with a resource that
\* displays as '*'; after is_a(t) it builds a resource that displays as
\* t + ':*'.
C23_AnyBuilds ==
    (pc = "op" /\ op.name = "resource_built" /\ op.ctor = "any") =>
        /\ op.rcalls = <<>> =>
              op.result.ok /\ Resource_fmt(op.result.res) = <<"*">>
        /\ (Len(op.rcalls) = 1 /\ op.rcalls[1].name = "is_a") =>
              /\ op.result.ok
              /\ Resource_fmt(op.result.res) = op.rcalls[1].arg \o <<":", "*">>

\* The argument of the last call of that name.
LastArg(rcalls, name) ==
    LET last == CHOOSE i \in 1..Len(rcalls) :
                    /\ rcalls[i].name = name
                    /\ \A j \in (i + 1)..Len(rcalls) : rcalls[j].name # name
    IN  rcalls[last].arg

\* Some call has that name.
Called(rcalls, name) == \E i \in 1..Len(rcalls) : rcalls[i].name = name

\* C28: after any sequence of type calls and with calls on
\* ResourceBuilder::new(id) the id is the original id, the type is the
\* argument of the last type call and the qualifier the argument of the last
\* with call, whatever the order of the calls: new(id).is_a(t).with(q) and
\* new(id).with(q).is_a(t) build the same resource 't:id:q'.
C28_BuilderState ==
    (pc = "op" /\ op.name \in {"resource_builder", "resource_built"} /\ op.ctor = "new") =>
        /\ op.resource.id = op.id
        /\ Called(op.rcalls, "is_a") => op.resource.the_type = LastArg(op.rcalls, "is_a")
        /\ Called(op.rcalls, "with") => op.resource.qualifier = LastArg(op.rcalls, "with")
        /\ (Called(op.rcalls, "is_a") /\ Called(op.rcalls, "with")) =>
              op.resource = ResourceQTypedId(LastArg(op.rcalls, "is_a"), op.id,
                                             LastArg(op.rcalls, "with"))
        /\ (/\ op.name = "resource_built" /\ op.id = <<"x">>
            /\ Called(op.rcalls, "is_a") /\ Called(op.rcalls, "with")) =>
              /\ op.result.ok
              /\ Resource_fmt(op.result.res) =
                    LastArg(op.rcalls, "is_a") \o <<":", "x", ":">>
                    \o LastArg(op.rcalls, "with")

\* new('x').with('3').is_a('t') builds 't:x:3'.
C28_Witness ==
    /\ pc = "op" /\ op.name = "resource_built" /\ op.ctor = "new"
    /\ op.id = <<"x">>
    /\ op.rcalls = <<Call("with", <<"3">>), Call("is_a", <<"t">>)>>
    /\ op.result.ok
    /\ Resource_fmt(op.result.res) = <<"t", ":", "x", ":", "3">>

\* The result of a parse is a value, or an error of that kind that carries
\* the text; it is not a panic.
ValueOrError(result, str, valid, kind) ==
    /\ ~result.panicked
    /\ valid => result.ok /\ result.value = str /\ result.err = NoErr
    /\ ~valid => ~result.ok /\ result.err = [kind |-> kind, arg |-> str]

\* The variants of ArnError.
ArnErrorKinds ==
    {"TooFewComponents", "MissingPrefix", "MissingPartition", "InvalidPartition",
     "MissingService", "InvalidService", "MissingRegion", "InvalidRegion",
     "RegionWildcardNotAllowed", "MissingAccountId", "InvalidAccountId",
     "AccountIdWildcardNotAllowed", "MissingResource", "InvalidResource",
     "ResourceWildcardNotAllowed"}

NonAsciiArnParsed ==
    /\ pc \in {"parsed", "failed"}
    /\ s = Arn6(ARN_PREFIX, Aws, S3, <<>>, <<>>, <<<<"U+E9">>>>)

\* C25: fail-fast in the order of the fields: when an input with six
\* slices or more and the prefix 'arn' has several fields that the parser's
\* tests refuse, the error is the one of the first such field in the order
\* partition, service, region, account, resource; an invalid partition with
\* an empty or invalid resource gives InvalidPartition, not a resource error.
C25_FailFastOrder ==
    (pc \in {"parsed", "failed"} /\ Len(Slices) >= 6 /\ Slices[1] = ARN_PREFIX) =>
        LET bad_partition == Slices[2] # <<>> /\ ~PARTITION_is_match(Slices[2])
            bad_service == ~IDENTIFIER_is_match(Slices[3])
            bad_region == Slices[4] # <<>> /\ ~IDENTIFIER_is_match(Slices[4])
            bad_account ==
                /\ Slices[5] # <<>>
                /\ \/ str_len(Slices[5]) # 12
                   \/ \E i \in 1..Len(Slices[5]) : ~is_ascii_digit(Slices[5][i])
        IN  /\ bad_partition => err.kind = "InvalidPartition"
            /\ (~bad_partition /\ bad_service) => err.kind = "InvalidService"
            /\ (~bad_partition /\ ~bad_service /\ bad_region) => err.kind = "InvalidRegion"
            /\ (~bad_partition /\ ~bad_service /\ ~bad_region /\ bad_account) =>
                  err.kind = "InvalidAccountId"

\* C26: what the builder builds can be parsed: after any sequence of setter
\* calls from ArnBuilder::new(service), an ARN that build() returns as Ok
\* displays as a string that ARN::from_str accepts, and the parsed ARN
\* displays as the same string; also when no resource was set.
C26_BuilderParseable ==
    (pc = "reparsed_built" /\ calls # <<>> /\ err = NoErr) =>
        /\ err2 = NoErr
        /\ ARN_fmt(arn2) = shown

\* C27: an ARN whose partition, service and region are valid Identifiers,
\* whose account is a valid AccountIdentifier and whose resource is a valid
\* ResourceIdentifier, the one of s3::bucket_in for a valid partition
\* among them, displays as the prefix and five fields separated by the
\* first five ':', and the parser accepts the string and gives back the
\* same service, region, account and resource.
C27_RenderedParseable ==
    /\ (/\ pc = "op" /\ op.name = "bucket_in"
        /\ IdentifierRule(op.partition) /\ IdentifierRule(op.bucket_name)) =>
          /\ Len(split(op.shown, ARN_SEPARATOR)) >= 6
          /\ SubSeq(split(op.shown, ARN_SEPARATOR), 1, 5)
                = <<ARN_PREFIX, op.partition, S3, <<>>, <<>>>>
          /\ op.parsed.ok
          /\ op.parsed.arn.service = op.value.service
          /\ op.parsed.arn.region = op.value.region
          /\ op.parsed.arn.account_id = op.value.account_id
          /\ Resource_fmt(op.parsed.arn.resource) = op.value.resource
    /\ (/\ pc = "reparsed_built" /\ calls = <<>>
        /\ arn.partition.some => IdentifierRule(arn.partition.val)
        /\ IdentifierRule(arn.service)
        /\ arn.region.some => IdentifierRule(arn.region.val)
        /\ arn.account_id.some => AccountRule(arn.account_id.val)
        /\ ResourceRule(Resource_fmt(arn.resource))) =>
          /\ err2 = NoErr
          /\ arn2.service = arn.service
          /\ arn2.region = arn.region
          /\ arn2.account_id = arn.account_id
          /\ Resource_fmt(arn2.resource) = Resource_fmt(arn.resource)

\* The string has a placeholder whose name is a key of the context.
HasKeyedPlaceholder(str, context) ==
    \E i, j \in 1..Len(str) :
        /\ j >= i + 3
        /\ str[i] = "$" /\ str[i + 1] = "{" /\ str[j] = "}"
        /\ \A k \in (i + 2)..(j - 1) : str[k] \notin {"$", "}"}
        /\ SubSeq(str, i + 2, j - 1) \in DOMAIN context

\* C29 as stated: replace_variables is one simultaneous pass over the
\* original string, a placeholder that comes in with a value is not replaced
\* in the same call; so a second call with the same context gives what the
\* first gave whenever no value of the context contains a placeholder.
C29_SinglePassIdempotent ==
    (pc = "op" /\ op.name = "replace_variables") =>
        LET text == Substituted(op.pieces, op.context) IN
        /\ op.result.ok => op.result.value = text
        /\ (/\ op.result.ok
            /\ \A n \in DOMAIN op.context : ~HasPlaceholder(op.context[n])) =>
              op.twice = op.result

\* C29: replace_variables is one simultaneous pass over the original
\* string, a placeholder that comes in with a value is not replaced in the
\* same call, even when its name is a key; a second call with the same
\* context gives what the first gave whenever the first result has no
\* placeholder whose name is a key of the context.
C29_SinglePass ==
    (pc = "op" /\ op.name = "replace_variables") =>
        LET text == Substituted(op.pieces, op.context) IN
        /\ op.result.ok => op.result.value = text
        /\ (op.result.ok /\ ~HasKeyedPlaceholder(op.result.value, op.context)) =>
              op.twice = op.result

\* '${a}' with a -> '${b}' and b -> 'x' gives '${b}'; the second call
\* gives 'x'.
C29_Witness ==
    /\ pc = "op" /\ op.name = "replace_variables"
    /\ op.pieces = <<Var(<<"a">>)>>
    /\ DOMAIN op.context = {<<"a">>, <<"b">>}
    /\ op.context[<<"a">>] = <<"$", "{", "b", "}">>
    /\ op.context[<<"b">>] = <<"x">>
    /\ op.result.ok /\ op.result.value = <<"$", "{", "b", "}">>
    /\ op.twice.ok /\ op.twice.value = <<"x">>

\* '$${a}' with a -> '{b}' and b -> 'x' gives '${b}': the '$' of the
\* template and the value make a placeholder that the second call replaces,
\* though no value contains a placeholder.
PlaceholderAssembled ==
    /\ pc = "op" /\ op.name = "replace_variables"
    /\ op.pieces = <<Lit(<<"$">>), Var(<<"a">>)>>
    /\ DOMAIN op.context = {<<"a">>, <<"b">>}
    /\ op.context[<<"a">>] = <<"{", "b", "}">>
    /\ op.context[<<"b">>] = <<"x">>
    /\ op.result.value = <<"$", "{", "b", "}">>
    /\ op.twice.value = <<"x">>

\* C30: a string that Resource::from_str accepts is what the parsed
\* resource displays as; and a Resource that passes validate() and displays
\* as a non-empty string is what Resource::from_str makes of that string,
\* the same variant with the same components.
C30_ResourceRoundTrip ==
    /\ (pc = "op" /\ op.name = "resource_from_str" /\ op.result.ok) =>
          op.shown = op.str
    /\ (/\ pc = "op" /\ op.name = "resource"
        /\ op.validate = NoErr /\ op.shown # <<>>) =>
          op.reparsed.ok /\ op.reparsed.res = op.resource

(***************************************************************************)
(* States that show where the parser departs from the rules above          *)
(***************************************************************************)

\* 'arn:aws:s3:ca-1:123456789012:x:x:x:x', a resource of four qualified
\* slices, is refused with InvalidResource.
FourSlicesRefused ==
    /\ pc = "failed"
    /\ s = Arn6(ARN_PREFIX, Aws, S3, Ca1, Digits12, <<<<"x">>, <<"x">>, <<"x">>, <<"x">>>>)
    /\ err = InvalidResource(<<"x", ":", "x", ":", "x", ":", "x">>)

\* 'arn:aws-c:s3:::x' is refused with InvalidPartition.
PartitionAwsCRefused ==
    /\ pc = "failed"
    /\ s = Arn6(ARN_PREFIX, <<"a", "w", "s", "-", "c">>, S3, <<>>, <<>>, <<<<"x">>>>)
    /\ err = ArnError("InvalidPartition")

\* 'arn:aws:a:::x', a service of one letter, is refused with InvalidService.
ServiceARefused ==
    /\ pc = "failed"
    /\ s = Arn6(ARN_PREFIX, Aws, <<"a">>, <<>>, <<>>, <<<<"x">>>>)
    /\ err = ArnError("InvalidService")

\* 'arn:aws:s3::*:x', a wildcard account, is refused with InvalidAccountId.
AccountWildRefused ==
    /\ pc = "failed"
    /\ s = Arn6(ARN_PREFIX, Aws, S3, <<>>, <<"*">>, <<<<"x">>>>)
    /\ err = ArnError("InvalidAccountId")

\* 'arn:aws:s3:::' followed by a tab is accepted, the resource being the tab.
ResourceTabAccepted ==
    /\ pc = "parsed"
    /\ s = Arn6(ARN_PREFIX, Aws, S3, <<>>, <<>>, <<<<"\t">>>>)
    /\ arn.resource = ResourceId(<<"\t">>)

\* 'arn:aws:s3:::ab*' is refused with InvalidResource.
ResourceTrailingWildRefused ==
    /\ pc = "failed"
    /\ s = Arn6(ARN_PREFIX, Aws, S3, <<>>, <<>>, <<<<"a", "b", "*">>>>)
    /\ err = InvalidResource(<<"i", "d">>)

\* 'arn:aws:iam::aws:policy/a' is refused with InvalidAccountId.
ManagedPolicyRefused ==
    /\ pc = "failed"
    /\ s = ManagedPolicyArn
    /\ err = ArnError("InvalidAccountId")

\* 'arn:aws:s3::123456789:x', an account of nine digits, is refused with an
\* InvalidAccountId that carries no text.
NineDigitsUntyped ==
    /\ pc = "failed"
    /\ s = Arn6(ARN_PREFIX, Aws, S3, <<>>, SubSeq(Digits12, 1, 9), <<<<"x">>>>)
    /\ err = [kind |-> "InvalidAccountId", arg |-> <<>>]

\* 'arn:aws:s3:::', an empty resource, is refused with MissingResource.
EmptyResourceMissing ==
    /\ pc = "failed"
    /\ s = Arn6(ARN_PREFIX, Aws, S3, <<>>, <<>>, <<<<>>>>)
    /\ err = ArnError("MissingResource")

\* ResourceBuilder::any().build() is refused: any() makes the id '*', not
\* the wildcard resource, and '*' may not be in an id.
AnyBuilderRefused ==
    /\ pc = "op" /\ op.name = "resource_built" /\ op.ctor = "any"
    /\ op.rcalls = <<>>
    /\ op.resource = ResourceId(<<"*">>)
    /\ op.result.err = InvalidResource(<<"i", "d">>)

\* ResourceBuilder::any().is_a('t').build() gives 't:*'.
AnyTypedBuilt ==
    /\ pc = "op" /\ op.name = "resource_built" /\ op.ctor = "any"
    /\ op.rcalls = <<Call("is_a", <<"t">>)>>
    /\ op.result.ok
    /\ Resource_fmt(op.result.res) = <<"t", ":", "*">>

\* 'arn:cn:s3:::', an invalid partition and an empty resource, is refused
\* with MissingResource: the resource is parsed before the fields are tested.
InvalidPartitionMasked ==
    /\ pc = "failed"
    /\ s = Arn6(ARN_PREFIX, <<"c", "n">>, S3, <<>>, <<>>, <<<<>>>>)
    /\ err = ArnError("MissingResource")

\* 'arn:cn:s3:::x', the same partition with a resource, is refused with
\* InvalidPartition.
InvalidPartitionReported ==
    /\ pc = "failed"
    /\ s = Arn6(ARN_PREFIX, <<"c", "n">>, S3, <<>>, <<>>, <<<<"x">>>>)
    /\ err = ArnError("InvalidPartition")

\* ArnBuilder::new('s3').build() is Ok with the empty id as its resource; it
\* displays as 'arn:aws:s3:::', which the parser refuses with MissingResource.
NoResourceBuiltUnparseable ==
    /\ pc = "reparsed_built"
    /\ calls = <<Call("new", S3)>>
    /\ err = NoErr
    /\ arn.resource = ResourceId(<<>>)
    /\ shown = Arn6(ARN_PREFIX, Aws, S3, <<>>, <<>>, <<<<>>>>)
    /\ err2 = ArnError("MissingResource")

\* s3::bucket_in('cn', 'x') displays as 'arn:cn:s3:::x', which the parser
\* refuses with InvalidPartition.
BucketInCnRefused ==
    /\ pc = "op" /\ op.name = "bucket_in"
    /\ op.partition = <<"c", "n">> /\ op.bucket_name = <<"x">>
    /\ op.shown = Arn6(ARN_PREFIX, <<"c", "n">>, S3, <<>>, <<>>, <<<<"x">>>>)
    /\ op.parsed.err = ArnError("InvalidPartition")

\* s3::bucket_in('aws-cn', 'my-b') displays as 'arn:aws-cn:s3:::my-b', which
\* the parser accepts.
BucketInAwsCnParsed ==
    /\ pc = "op" /\ op.name = "bucket_in"
    /\ op.partition = <<"a", "w", "s", "-", "c", "n">>
    /\ op.bucket_name = <<"m", "y", "-", "b">>
    /\ op.parsed.ok
    /\ op.parsed.arn.resource = ResourceId(<<"m", "y", "-", "b">>)

\* Resource::Path('a') is valid and displays as 'a', which parses to
\* Resource::Id('a'): a path without '/' does not come back as a path.
PathWithoutSlashBecomesId ==
    /\ pc = "op" /\ op.name = "resource"
    /\ op.resource = ResourcePath(<<"a">>)
    /\ op.validate = NoErr
    /\ op.shown = <<"a">>
    /\ op.reparsed.res = ResourceId(<<"a">>)

\* 'a:*:' parses to the qualified resource and displays as 'a:*:'.
QualifiedStringShownBack ==
    /\ pc = "op" /\ op.name = "resource_from_str"
    /\ op.str = <<"a", ":", "*", ":">>
    /\ op.result.res = ResourceQTypedId(<<"a">>, <<"*">>, <<>>)
    /\ op.shown = op.str

=============================================================================
